---- MODULE Spec2Model ----
(***************************************************************************)
(* Model of apps/server/src/parser.rs of x2-colon: the timestamp-range     *)
(* scanner (find_all_ranges), the validator (parse_range), the duration    *)
(* aggregator (calculate_durations) and the script cleaner (clean_script). *)
(*                                                                         *)
(* A Rust &str is modelled as the sequence of its UTF-8 bytes.  An ASCII   *)
(* byte is written as the one-character string it encodes; the bytes of a  *)
(* multi-byte character are written as their hexadecimal value ("C3",      *)
(* "A9" for e-acute; "E2","80","93" for the en dash).  Offsets are 0-based *)
(* byte offsets as in the source; s[p + 1] is the byte at offset p.        *)
(*                                                                         *)
(* A u32 is modelled as a pair <<hi, lo>> of 16-bit limbs (value           *)
(* hi * 2^16 + lo), so that the full 32-bit width is kept.  The exact      *)
(* (mathematical) result of an operation is the same pair with hi allowed  *)
(* to reach or exceed 2^16: the operation overflows exactly then.          *)
(***************************************************************************)
EXTENDS Integers, Sequences, FiniteSets, TLC

\* ------------------------------------------------------------------------
\* u32 arithmetic
\* ------------------------------------------------------------------------
Limb == 65536
SecondsPerHour == 3600
SecondsPerMinute == 60
MaxField == 59
Radix == 10

Norm(hi, lo) == <<hi + (lo \div Limb), lo % Limb>>
ExactAdd(x, y) == Norm(x[1] + y[1], x[2] + y[2])
ExactMul(x, k) == Norm(x[1] * k, x[2] * k)
Overflows(x) == x[1] >= Limb
Wrap(x) == <<x[1] % Limb, x[2]>>
Zero == <<0, 0>>
Small(n) == <<0, n>>
U32Lt(x, y) == x[1] < y[1] \/ (x[1] = y[1] /\ x[2] < y[2])
U32Gt(x, n) == x[1] > 0 \/ x[2] > n
U32Sub(x, y) ==
    IF x[2] >= y[2] THEN <<x[1] - y[1], x[2] - y[2]>>
    ELSE <<x[1] - y[1] - 1, x[2] + Limb - y[2]>>

\* ------------------------------------------------------------------------
\* bytes and characters
\* ------------------------------------------------------------------------
DigitChars == <<"0", "1", "2", "3", "4", "5", "6", "7", "8", "9">>
Digits == {DigitChars[i] : i \in 1..10}
DigitVal(c) == (CHOOSE i \in 1..10 : DigitChars[i] = c) - 1
Letters == {"a", "b", "x", "z"}
EnDash == <<"E2", "80", "93">>
EmDash == <<"E2", "80", "94">>
Hyphen == <<"-">>
EAcute == <<"C3", "A9">>
ContinuationBytes == {"80", "93", "94", "A9"}
Whitespace == {" ", "\n", "\t", "\r"}

Slice(s, a, b) == SubSeq(s, a + 1, b)
StartsWith(s, p, t) == p + Len(t) <= Len(s) /\ Slice(s, p, p + Len(t)) = t
is_char_boundary(s, p) ==
    p = 0 \/ p = Len(s) \/ (p < Len(s) /\ s[p + 1] \notin ContinuationBytes)
\* char::is_alphanumeric of the character whose first byte is at offset p
is_alphanumeric(s, p) ==
    s[p + 1] \in Digits \cup Letters \/ StartsWith(s, p, EAcute)

\* ------------------------------------------------------------------------
\* nom parsers: each returns [ok, rest, ...], rest the offset after the match
\* ------------------------------------------------------------------------
Fail == [ok |-> FALSE]

RECURSIVE digit1(_, _)
digit1(s, p) == IF p < Len(s) /\ s[p + 1] \in Digits THEN digit1(s, p + 1) ELSE p

RECURSIVE parse_u32(_, _, _, _)
parse_u32(s, p, q, acc) ==
    IF p = q THEN [ok |-> TRUE, val |-> acc]
    ELSE LET n == ExactAdd(ExactMul(acc, Radix), Small(DigitVal(s[p + 1])))
         IN  IF Overflows(n) THEN Fail ELSE parse_u32(s, p + 1, q, n)

parse_number(s, p) ==
    LET q == digit1(s, p)
    IN  IF q = p THEN Fail
        ELSE LET r == parse_u32(s, p, q, Zero)
             IN  IF r.ok THEN [ok |-> TRUE, rest |-> q, val |-> r.val] ELSE Fail

tag(s, p, t) == IF StartsWith(s, p, t) THEN [ok |-> TRUE, rest |-> p + Len(t)] ELSE Fail

parse_hms(s, p) ==
    LET h == parse_number(s, p) IN
    IF ~h.ok THEN Fail ELSE
    LET c1 == tag(s, h.rest, <<":">>) IN
    IF ~c1.ok THEN Fail ELSE
    LET m == parse_number(s, c1.rest) IN
    IF ~m.ok THEN Fail ELSE
    LET c2 == tag(s, m.rest, <<":">>) IN
    IF ~c2.ok THEN Fail ELSE
    LET x == parse_number(s, c2.rest) IN
    IF ~x.ok THEN Fail ELSE
    [ok |-> TRUE, rest |-> x.rest,
     ts |-> [hours |-> h.val, minutes |-> m.val, seconds |-> x.val]]

parse_ms(s, p) ==
    LET m == parse_number(s, p) IN
    IF ~m.ok THEN Fail ELSE
    LET c1 == tag(s, m.rest, <<":">>) IN
    IF ~c1.ok THEN Fail ELSE
    LET x == parse_number(s, c1.rest) IN
    IF ~x.ok THEN Fail ELSE
    [ok |-> TRUE, rest |-> x.rest,
     ts |-> [hours |-> Zero, minutes |-> m.val, seconds |-> x.val]]

parse_timestamp(s, p) ==
    LET a == parse_hms(s, p) IN IF a.ok THEN a ELSE parse_ms(s, p)

parse_dash(s, p) ==
    LET a == tag(s, p, Hyphen) IN
    IF a.ok THEN a ELSE
    LET b == tag(s, p, EnDash) IN
    IF b.ok THEN b ELSE tag(s, p, EmDash)

\* Timestamp::to_seconds: the exact value; the u32 result is Wrap of it, and
\* a build with overflow checks panics when it Overflows.
to_seconds(ts) ==
    ExactAdd(ExactAdd(ExactMul(ts.hours, SecondsPerHour),
                      ExactMul(ts.minutes, SecondsPerMinute)),
             ts.seconds)

NoError == [kind |-> "None", value |-> Zero]
RangeResult(rest, d, e) ==
    [kind |-> "Ok", rest |-> rest, duration |-> d, error |-> e]

\* "(" TIMESTAMP DASH TIMESTAMP ")" without the validation
range_syntax(s, p) ==
    LET o == tag(s, p, <<"(">>) IN
    IF ~o.ok THEN Fail ELSE
    LET a == parse_timestamp(s, o.rest) IN
    IF ~a.ok THEN Fail ELSE
    LET d == parse_dash(s, a.rest) IN
    IF ~d.ok THEN Fail ELSE
    LET b == parse_timestamp(s, d.rest) IN
    IF ~b.ok THEN Fail ELSE
    LET c == tag(s, b.rest, <<")">>) IN
    IF ~c.ok THEN Fail ELSE
    [ok |-> TRUE, rest |-> c.rest, start |-> a.ts, end |-> b.ts]

\* the validation of parse_range; checks: the build has overflow checks
validate(start, end, rest, checks) ==
    IF U32Gt(start.minutes, MaxField)
    THEN RangeResult(rest, Zero, [kind |-> "InvalidMinutes", value |-> start.minutes])
    ELSE IF U32Gt(end.minutes, MaxField)
    THEN RangeResult(rest, Zero, [kind |-> "InvalidMinutes", value |-> end.minutes])
    ELSE IF U32Gt(start.seconds, MaxField)
    THEN RangeResult(rest, Zero, [kind |-> "InvalidSeconds", value |-> start.seconds])
    ELSE IF U32Gt(end.seconds, MaxField)
    THEN RangeResult(rest, Zero, [kind |-> "InvalidSeconds", value |-> end.seconds])
    ELSE LET xs == to_seconds(start)
             xe == to_seconds(end)
             start_secs == Wrap(xs)
             end_secs == Wrap(xe)
         IN  IF checks /\ (Overflows(xs) \/ Overflows(xe)) THEN [kind |-> "Panic"]
             ELSE IF U32Lt(end_secs, start_secs)
             THEN RangeResult(rest, Zero, [kind |-> "EndBeforeStart", value |-> Zero])
             ELSE RangeResult(rest, U32Sub(end_secs, start_secs), NoError)

parse_range(s, p, checks) ==
    CHOOSE out \in {IF ~r.ok THEN [kind |-> "Err"]
                     ELSE validate(r.start, r.end, r.rest, checks) :
                     r \in {range_syntax(s, p)}} : TRUE

\* ------------------------------------------------------------------------
\* find_all_ranges
\* ------------------------------------------------------------------------
NotFound == 0 - 1

\* str::find of a one-byte pattern: the first offset >= p holding c
RECURSIVE find(_, _, _)
find(s, p, c) ==
    IF p >= Len(s) THEN NotFound
    ELSE IF s[p + 1] = c THEN p ELSE find(s, p + 1, c)

DashLen(s, p) ==
    IF StartsWith(s, p, Hyphen) THEN Len(Hyphen)
    ELSE IF StartsWith(s, p, EnDash) THEN Len(EnDash)
    ELSE IF StartsWith(s, p, EmDash) THEN Len(EmDash)
    ELSE 0

\* only the hyphen counts as a dash
find_dash_ascii(s, p, q) ==
    IF find(s, p, "-") = NotFound \/ find(s, p, "-") >= q THEN NotFound
    ELSE find(s, p, "-")

\* the first offset >= p and < q at which a dash glyph that ends by q starts
RECURSIVE find_dash(_, _, _)
find_dash(s, p, q) ==
    IF p >= q THEN NotFound
    ELSE IF DashLen(s, p) > 0 /\ p + DashLen(s, p) <= q THEN p
    ELSE find_dash(s, p + 1, q)

\* timestamp_pattern anchored at offset p: \([^)]*:[^)]*[-<en><em>][^)]*:[^)]*\)
\* the offset after the match, or NotFound
pattern_at(s, p) ==
    IF ~(p < Len(s) /\ s[p + 1] = "(") THEN NotFound ELSE
    LET q == find(s, p + 1, ")") IN
    IF q = NotFound THEN NotFound ELSE
    LET c1 == find(s, p + 1, ":") IN
    IF c1 = NotFound \/ c1 >= q THEN NotFound ELSE
    LET d == find_dash(s, c1 + 1, q) IN
    IF d = NotFound THEN NotFound ELSE
    LET c2 == find(s, d + DashLen(s, d), ":") IN
    IF c2 = NotFound \/ c2 >= q THEN NotFound ELSE q + 1

\* Regex::find on input[from..]: the leftmost match
RECURSIVE timestamp_pattern_find(_, _)
timestamp_pattern_find(s, from) ==
    LET p == find(s, from, "(") IN
    IF p = NotFound THEN [found |-> FALSE]
    ELSE IF pattern_at(s, p) # NotFound
         THEN [found |-> TRUE, start |-> p, end |-> pattern_at(s, p)]
         ELSE timestamp_pattern_find(s, p + 1)

ParsedRange(s, a, r) ==
    [start_pos |-> a, end_pos |-> r.rest, text |-> Slice(s, a, r.rest),
     duration |-> r.duration, error |-> r.error]

ScanStart == [status |-> "scanning", search_start |-> 0, ranges |-> <<>>, msg |-> <<>>]

\* the loop body when the strict parse at the '(' at abs_start failed
scan_failed(s, st, abs_start) ==
    LET m == timestamp_pattern_find(s, abs_start) IN
    IF m.found /\ m.start = abs_start
    THEN [st EXCEPT !.status = "Err", !.msg = Slice(s, m.start, m.end)]
    ELSE [st EXCEPT !.search_start = abs_start + 1]

\* the loop body when parse_range at the '(' at abs_start gave r
scan_parsed(s, st, abs_start, r, failed) ==
    IF r.kind = "Panic" THEN [st EXCEPT !.status = "Panic"]
    ELSE IF r.kind = "Ok"
    THEN [st EXCEPT !.ranges = Append(@, ParsedRange(s, abs_start, r)),
                    !.search_start = r.rest]
    ELSE failed

\* a range-like text that does not parse is skipped like any other '('
scan_lenient_at(s, st, abs_start, checks) ==
    IF abs_start = NotFound THEN [st EXCEPT !.status = "Ok"]
    ELSE CHOOSE out \in {scan_parsed(s, st, abs_start, r,
                                     [st EXCEPT !.search_start = abs_start + 1]) :
                         r \in {parse_range(s, abs_start, checks)}} : TRUE

scan_step_lenient(s, st, checks) ==
    CHOOSE out \in {scan_lenient_at(s, st, abs_start, checks) :
                     abs_start \in {find(s, st.search_start, "(")}} : TRUE

\* the loop body for the next '(' at abs_start; the loop ends if there is none
scan_at(s, st, abs_start, checks) ==
    IF abs_start = NotFound THEN [st EXCEPT !.status = "Ok"]
    ELSE CHOOSE out \in {scan_parsed(s, st, abs_start, r, scan_failed(s, st, abs_start)) :
                         r \in {parse_range(s, abs_start, checks)}} : TRUE

\* one iteration of the while-let loop of find_all_ranges
scan_step(s, st, checks) ==
    CHOOSE out \in {scan_at(s, st, abs_start, checks) :
                     abs_start \in {find(s, st.search_start, "(")}} : TRUE

RECURSIVE scan_loop(_, _, _)
scan_loop(s, st, checks) ==
    IF st.status # "scanning" THEN st
    ELSE CHOOSE out \in {scan_loop(s, next, checks) :
                         next \in {scan_step(s, st, checks)}} : TRUE

find_all_ranges(s, checks) == scan_loop(s, ScanStart, checks)

\* ------------------------------------------------------------------------
\* calculate_durations
\* ------------------------------------------------------------------------
RECURSIVE trim_start(_)
trim_start(s) ==
    IF s # <<>> /\ Head(s) \in Whitespace THEN trim_start(Tail(s)) ELSE s

RECURSIVE trim_end(_)
trim_end(s) ==
    IF s # <<>> /\ s[Len(s)] \in Whitespace
    THEN trim_end(SubSeq(s, 1, Len(s) - 1)) ELSE s

trim(s) == CHOOSE out \in {trim_end(t) : t \in {trim_start(s)}} : TRUE

\* between.trim() == "+" for between = input[a..b]
connected(s, a, b) == trim(Slice(s, a, b)) = <<"+">>

RECURSIVE decimal(_)
decimal(n) ==
    IF n < Radix THEN <<DigitChars[n + 1]>>
    ELSE Append(decimal(n \div Radix), DigitChars[(n % Radix) + 1])

\* format!("{}:{:02}", seconds / 60, seconds % 60)
format_duration(x) ==
    LET low == (x[1] % SecondsPerMinute) * Limb + x[2]
        mins == (x[1] \div SecondsPerMinute) * Limb + (low \div SecondsPerMinute)
        secs == low % SecondsPerMinute
    IN  decimal(mins) \o <<":">> \o
        (IF secs < Radix THEN <<"0">> ELSE <<>>) \o decimal(secs)

RECURSIVE join(_, _)
join(texts, sep) ==
    IF Len(texts) = 0 THEN <<>>
    ELSE IF Len(texts) = 1 THEN texts[1]
    ELSE texts[1] \o sep \o join(Tail(texts), sep)

PlusSep == <<" ", "+", " ">>

DurationResult(x) == [seconds |-> x, format |-> format_duration(x)]

\* g with range i + 1 added to the group; g = [i, group_texts,
\* group_duration, last_end, panic]
group_with_next(ranges, g, checks) ==
    LET sum == ExactAdd(g.group_duration, ranges[g.i + 1].duration) IN
    IF checks /\ Overflows(sum) THEN [g EXCEPT !.panic = TRUE]
    ELSE [i |-> g.i + 1,
          group_texts |-> Append(g.group_texts, ranges[g.i + 1].text),
          group_duration |-> Wrap(sum),
          last_end |-> ranges[g.i + 1].end_pos,
          panic |-> FALSE]

\* the inner loop taken at most once
extend_group_once(s, ranges, g, checks) ==
    IF g.i + 1 <= Len(ranges)
       /\ connected(s, g.last_end, ranges[g.i + 1].start_pos)
    THEN group_with_next(ranges, g, checks)
    ELSE g

\* the inner while loop
RECURSIVE extend_group(_, _, _, _)
extend_group(s, ranges, g, checks) ==
    IF ~g.panic /\ g.i + 1 <= Len(ranges)
       /\ connected(s, g.last_end, ranges[g.i + 1].start_pos)
    THEN CHOOSE out \in {extend_group(s, ranges, next, checks) :
                         next \in {group_with_next(ranges, g, checks)}} : TRUE
    ELSE g

\* the group of range i alone, as the outer loop sets it up
GroupOf(ranges, i) ==
    [i |-> i, group_texts |-> <<ranges[i].text>>,
     group_duration |-> ranges[i].duration,
     last_end |-> ranges[i].end_pos, panic |-> FALSE]

Line(id, g) ==
    [id |-> id, input |-> join(g.group_texts, PlusSep),
     group_texts |-> g.group_texts, result |-> DurationResult(g.group_duration)]

\* one iteration of the outer while loop, the group g being complete;
\* a = [i, lines, grand_total, id, panic], i 1-based
group_step(a, g, checks) ==
    LET sum == ExactAdd(a.grand_total, g.group_duration) IN
    IF g.panic \/ (checks /\ Overflows(sum)) THEN [a EXCEPT !.panic = TRUE]
    ELSE [i |-> g.i + 1, lines |-> Append(a.lines, Line(a.id, g)),
          grand_total |-> Wrap(sum), id |-> a.id + 1, panic |-> FALSE]

\* the outer while loop and the result
RECURSIVE group_loop(_, _, _, _)
group_loop(s, ranges, a, checks) ==
    IF a.panic THEN [kind |-> "Panic"]
    ELSE IF a.i > Len(ranges)
    THEN [kind |-> "Ok", lines |-> a.lines, total |-> DurationResult(a.grand_total)]
    ELSE CHOOSE out \in {group_loop(s, ranges, next, checks) :
             next \in {group_step(a, g, checks) :
                 g \in {extend_group(s, ranges, GroupOf(ranges, a.i), checks)}}} : TRUE

GroupStart == [i |-> 1, lines |-> <<>>, grand_total |-> Zero, id |-> 1, panic |-> FALSE]

\* the last range carrying a validation defect, 0 when there is none
RECURSIVE last_defect(_, _)
last_defect(ranges, i) ==
    IF i > Len(ranges) THEN 0
    ELSE LET later == last_defect(ranges, i + 1)
         IN  IF later # 0 THEN later
             ELSE IF ranges[i].error.kind # "None" THEN i ELSE 0

\* the first range carrying a validation defect, 0 when there is none
RECURSIVE first_defect(_, _)
first_defect(ranges, i) ==
    IF i > Len(ranges) THEN 0
    ELSE IF ranges[i].error.kind # "None" THEN i ELSE first_defect(ranges, i + 1)

Err(kind, text, value) ==
    [kind |-> "Err", error |-> [kind |-> kind, text |-> text, value |-> value]]

\* calculate_durations after its call of find_all_ranges, whose outcome is st
aggregate(s, st, checks) ==
    IF st.status = "Panic" THEN [kind |-> "Panic"]
    ELSE IF st.status = "Err" THEN Err("Malformed", st.msg, Zero)
    ELSE CHOOSE out \in {IF d # 0
                         THEN Err(st.ranges[d].error.kind, st.ranges[d].text,
                                  st.ranges[d].error.value)
                         ELSE group_loop(s, st.ranges, GroupStart, checks) :
                         d \in {first_defect(st.ranges, 1)}} : TRUE

calculate_durations(s, checks) ==
    CHOOSE out \in {aggregate(s, st, checks) : st \in {find_all_ranges(s, checks)}} : TRUE

\* ------------------------------------------------------------------------
\* clean_script
\* ------------------------------------------------------------------------
\* str::replace: every non-overlapping match, left to right
RECURSIVE replace(_, _, _)
replace(s, pat, rep) ==
    IF Len(s) < Len(pat) THEN s
    ELSE IF SubSeq(s, 1, Len(pat)) = pat
         THEN rep \o replace(SubSeq(s, Len(pat) + 1, Len(s)), pat, rep)
         ELSE <<Head(s)>> \o replace(Tail(s), pat, rep)

cleanup(result) ==
    CHOOSE out \in {replace(r2, <<" ", "+">>, <<>>) :
        r2 \in {replace(r1, <<"+", " ">>, <<>>) :
            r1 \in {replace(result, <<" ", "+", " ">>, <<" ">>)}}} : TRUE

\* &input[a..b] does not panic
slice_ok(s, a, b) ==
    a <= b /\ b <= Len(s) /\ is_char_boundary(s, a) /\ is_char_boundary(s, b)

\* one iteration of the while loop; a = [i, last_pos, result, panic], i 1-based
excise_step(s, ranges, a) ==
    LET range == ranges[a.i]
        text_start == a.last_pos
        before_space == range.start_pos > 0 /\ s[range.start_pos] = " "
        text_end == IF before_space THEN range.start_pos - 1 ELSE range.start_pos
        joined == a.i + 1 <= Len(ranges)
                  /\ connected(s, range.end_pos, ranges[a.i + 1].start_pos)
        end_pos == IF joined THEN ranges[a.i + 1].end_pos ELSE range.end_pos
        after_space == end_pos < Len(s) /\ s[end_pos + 1] = " "
        skip_to == IF after_space THEN end_pos + 1 ELSE end_pos
    IN  IF \/ ~slice_ok(s, text_start, text_end)
           \/ (text_end > 0 /\ ~slice_ok(s, text_end - 1, Len(s)))
           \/ (skip_to < Len(s) /\ ~slice_ok(s, skip_to, Len(s)))
        THEN [a EXCEPT !.panic = TRUE]
        ELSE
        LET needs_space == text_end > 0 /\ skip_to < Len(s)
                           /\ is_alphanumeric(s, text_end - 1)
                           /\ is_alphanumeric(s, skip_to)
                           /\ ~before_space /\ ~after_space
        IN  [i |-> IF joined THEN a.i + 2 ELSE a.i + 1,
             last_pos |-> skip_to,
             result |-> a.result \o Slice(s, text_start, text_end)
                                 \o (IF needs_space THEN <<" ">> ELSE <<>>),
             panic |-> FALSE]

\* the while loop and what follows it
RECURSIVE excise_loop(_, _, _)
excise_loop(s, ranges, a) ==
    IF a.panic THEN [kind |-> "Panic"]
    ELSE IF a.i > Len(ranges)
    THEN [kind |-> "Ok", out |-> cleanup(a.result \o Slice(s, a.last_pos, Len(s)))]
    ELSE CHOOSE out \in {excise_loop(s, ranges, next) :
                         next \in {excise_step(s, ranges, a)}} : TRUE

ExciseStart == [i |-> 1, last_pos |-> 0, result |-> <<>>, panic |-> FALSE]

\* clean_script after its call of find_all_ranges, whose outcome is st
excise(s, st) ==
    IF st.status = "Panic" THEN [kind |-> "Panic"]
    ELSE IF st.status = "Err" \/ st.ranges = <<>> THEN [kind |-> "Ok", out |-> s]
    ELSE excise_loop(s, st.ranges, ExciseStart)

clean_script(s, checks) ==
    CHOOSE out \in {excise(s, st) : st \in {find_all_ranges(s, checks)}} : TRUE

\* ------------------------------------------------------------------------
\* inputs: texts put together from at most a bounded number of pieces
\* ------------------------------------------------------------------------
MaxPieces == 5
MaxGroupPieces == 5
MaxJoinPieces == 4
MaxFragments == 4
MaxItems == 3
MaxRanges == 2

RECURSIVE Texts(_, _)
Texts(P, n) ==
    IF n = 0 THEN {<<>>}
    ELSE LET T == Texts(P, n - 1) IN T \cup {t \o p : t \in T, p \in P}

Stamp(m, x) == m \o <<":">> \o x
TextRange(a, dash, b) == <<"(">> \o a \o dash \o b \o <<")">>

T00 == Stamp(<<"0">>, <<"0">>)
T01 == Stamp(<<"0">>, <<"1">>)
T03 == Stamp(<<"0">>, <<"3">>)
R1 == TextRange(T00, Hyphen, T01)
R2 == TextRange(T01, EnDash, T03)

\* prose around ranges: words, spaces, '+' signs, a two-byte letter
ProsePieces == {R1, R2, <<" ">>, <<"+">>, <<"a">>, EAcute}
ProseInputs == Texts(ProsePieces, MaxPieces)

\* ranges and what may stand between them
GroupPieces == {R1, R2, <<" ">>, <<"+">>, <<"\n">>}
GroupInputs == Texts(GroupPieces, MaxGroupPieces)

\* a range among the fragments of another one
JoinPieces == {<<"(">> \o T01, Hyphen, T01 \o <<")">>, R1, <<" ">>, <<"+">>, <<")">>}
JoinInputs == Texts(JoinPieces, MaxJoinPieces)

\* parenthesised text that is or is not range-like
SyntaxPieces ==
    {<<"(">> \o T01, T01 \o <<")">>, <<":", "1", ")">>, Hyphen, EmDash, <<"z">>,
     <<")">>, R1}
SyntaxInputs == Texts(SyntaxPieces, MaxFragments)

\* valid, defective and malformed ranges
BigHours == <<"1", "1", "9", "3", "0", "4", "7">>
FitHours == <<"1", "1", "9", "3", "0", "4", "6">>
TBig == Stamp(Stamp(BigHours, <<"0">>), <<"0">>)
TFit == Stamp(Stamp(FitHours, <<"0">>), <<"0">>)
T060 == Stamp(<<"0">>, <<"6", "0">>)
T600 == Stamp(<<"6", "0">>, <<"0">>)
DefectPieces ==
    {R1, TextRange(T060, Hyphen, T00), TextRange(T600, Hyphen, T00),
     TextRange(T01, Hyphen, T00), TextRange(T00, Hyphen, Stamp(<<"0">>, <<"z">>)),
     TextRange(T00, Hyphen, TBig), <<" ">>, <<"+">>}
DefectInputs == Texts(DefectPieces, MaxItems)

\* ranges over field values at the bounds, alone or in a row
Stamps == {T00, T01, T060, T600, TFit, TBig}
NumRanges == {TextRange(a, Hyphen, b) : a, b \in Stamps}
RECURSIVE Rows(_)
Rows(n) ==
    IF n = 1 THEN NumRanges
    ELSE LET T == Rows(n - 1)
         IN  T \cup {t \o sep \o r : t \in T, sep \in {<<"+">>, <<" ">>}, r \in NumRanges}
NumInputs == Rows(MaxRanges)

\* ------------------------------------------------------------------------
\* the state machine: an input text is scanned one loop iteration at a time;
\* the scan's outcome is consumed by calculate_durations or by clean_script,
\* and the cleaner's output is cleaned again.
\* ------------------------------------------------------------------------
VARIABLES input, checks, pc, scan, calc, cleaned, recleaned
vars == <<input, checks, pc, scan, calc, cleaned, recleaned>>

NoResult == [kind |-> "None"]

InitWith(inputs) ==
    /\ input \in inputs
    /\ checks \in BOOLEAN
    /\ pc = "scan"
    /\ scan = ScanStart
    /\ calc = NoResult
    /\ cleaned = NoResult
    /\ recleaned = NoResult

Init == InitWith(ProseInputs)

ScanStep ==
    /\ pc = "scan"
    /\ scan.status = "scanning"
    /\ scan' = scan_step(input, scan, checks)
    /\ UNCHANGED <<input, checks, pc, calc, cleaned, recleaned>>

Calculate ==
    /\ pc = "scan"
    /\ scan.status # "scanning"
    /\ calc' = aggregate(input, scan, checks)
    /\ pc' = "calculated"
    /\ UNCHANGED <<input, checks, scan, cleaned, recleaned>>

Clean ==
    /\ pc = "scan"
    /\ scan.status # "scanning"
    /\ cleaned' = excise(input, scan)
    /\ pc' = "cleaned"
    /\ UNCHANGED <<input, checks, scan, calc, recleaned>>

CleanAgain ==
    /\ pc = "cleaned"
    /\ cleaned.kind = "Ok"
    /\ recleaned' = clean_script(cleaned.out, checks)
    /\ pc' = "recleaned"
    /\ UNCHANGED <<input, checks, scan, calc, cleaned>>

Next == ScanStep \/ Calculate \/ Clean \/ CleanAgain

Spec == Init /\ [][Next]_vars

InitGroup == InitWith(GroupInputs)
SpecGroup == InitGroup /\ [][Next]_vars

InitJoin == InitWith(JoinInputs)
SpecJoin == InitJoin /\ [][Next]_vars

InitSyntax == InitWith(SyntaxInputs)
SpecSyntax == InitSyntax /\ [][Next]_vars

InitDefect == InitWith(DefectInputs)
SpecDefect == InitDefect /\ [][Next]_vars

InitNum == InitWith(NumInputs)
SpecNum == InitNum /\ [][Next]_vars

\* ------------------------------------------------------------------------
\* properties
\* ------------------------------------------------------------------------
Scanned == scan.status = "Ok" /\ scan.ranges # <<>>

\* the text strictly between ranges j and j + 1 of the scan is a '+' with
\* nothing but whitespace around it
Linked(j) ==
    LET b == Slice(input, scan.ranges[j].end_pos, scan.ranges[j + 1].start_pos)
    IN  \E q \in 1..Len(b) :
            b[q] = "+" /\ \A r \in (1..Len(b)) \ {q} : b[r] \in Whitespace

RECURSIVE SumLen(_, _)
SumLen(seqs, k) == IF k = 0 THEN 0 ELSE SumLen(seqs, k - 1) + Len(seqs[k])

\* the number of ranges in the lines before line k
Before(lines, k) == SumLen([j \in 1..Len(lines) |-> lines[j].group_texts], k - 1)

\* t is texts[1] " + " texts[2] " + " ... texts[n]
IsJoined(t, texts) ==
    LET off(m) == SumLen(texts, m - 1) + Len(PlusSep) * (m - 1)
    IN  /\ Len(t) = off(Len(texts)) + Len(texts[Len(texts)])
        /\ \A m \in 1..Len(texts) :
              /\ Slice(t, off(m), off(m) + Len(texts[m])) = texts[m]
              /\ m > 1 => Slice(t, off(m) - Len(PlusSep), off(m)) = PlusSep

\* C6: on success calculate_durations emits one Line per maximal run of
\* ranges linked by '+': the Lines partition the scanned ranges in text
\* order, the ranges of a Line are linked pairwise, a Line ends where the
\* link ends, ids count the Lines from 1, and a Line's input is its ranges'
\* texts joined by " + ".
C6_Grouping ==
    (pc = "calculated" /\ calc.kind = "Ok") =>
        LET L == calc.lines
            n == Len(scan.ranges)
        IN  /\ scan.status = "Ok"
            /\ Before(L, Len(L) + 1) = n
            /\ \A k \in 1..Len(L) :
                  LET first == Before(L, k) + 1
                      last == Before(L, k + 1)
                  IN  /\ L[k].id = k
                      /\ last >= first
                      /\ \A j \in first..last :
                            L[k].group_texts[j - first + 1] = scan.ranges[j].text
                      /\ \A j \in first..(last - 1) : Linked(j)
                      /\ last < n => ~Linked(last)
                      /\ IsJoined(L[k].input, L[k].group_texts)

\* a chain of three ranges in one Line, followed by another Line
C6_Witness ==
    /\ pc = "calculated" /\ calc.kind = "Ok"
    /\ \E k \in 1..Len(calc.lines) : Len(calc.lines[k].group_texts) >= 3

\* C4: clean_script is idempotent: cleaning the output of a cleaning that
\* returned gives that output again; and when the scan found ranges, the
\* output holds no text that the scanner takes for a range.
C4_Idempotent ==
    pc = "recleaned" =>
        /\ recleaned.kind = "Ok"
        /\ recleaned.out = cleaned.out
        /\ Scanned => LET again == find_all_ranges(cleaned.out, checks)
                      IN  again.status # "Panic" /\ again.ranges = <<>>

\* ranges were cut out of a text and the output still holds an opening
\* parenthesis with a timestamp, a dash and a closing parenthesis
C4_Witness ==
    /\ pc = "recleaned" /\ Scanned
    /\ \E i, j, k \in 1..Len(cleaned.out) :
          /\ i < j /\ j < k
          /\ cleaned.out[i] = "(" /\ cleaned.out[j] = "-" /\ cleaned.out[k] = ")"

\* the '(' the scanner looks at next: the first one at or after the cursor
NextParen ==
    IF \E p \in scan.search_start..(Len(input) - 1) : input[p + 1] = "("
    THEN CHOOSE p \in scan.search_start..(Len(input) - 1) :
            /\ input[p + 1] = "("
            /\ \A r \in scan.search_start..(p - 1) : input[r + 1] # "("
    ELSE NotFound

\* a dash glyph starts at offset j and ends by offset q
DashAt(j, q) ==
    \/ input[j + 1] = "-"
    \/ /\ j + 3 <= q
       /\ input[j + 1] = "E2" /\ input[j + 2] = "80" /\ input[j + 3] \in {"93", "94"}

LenOfDash(j) == IF input[j + 1] = "-" THEN 1 ELSE 3

\* q is the offset of the first ')' after offset p
FirstClose(p, q) ==
    /\ q > p /\ q < Len(input) /\ input[q + 1] = ")"
    /\ \A r \in (p + 1)..(q - 1) : input[r + 1] # ")"

\* the text from the '(' at p up to the next ')' holds a colon, then a dash
\* glyph, then a colon
RangeLike(p) ==
    \E q \in (p + 1)..(Len(input) - 1) :
        /\ FirstClose(p, q)
        /\ \E i, j, k \in (p + 1)..(q - 1) :
              /\ i < j /\ DashAt(j, q) /\ j + LenOfDash(j) <= k
              /\ input[i + 1] = ":" /\ input[k + 1] = ":"

\* C10: at a '(' where the strict pattern fails the scan fails hard, naming
\* the text from that '(' through the next ')', exactly when that text is
\* range-like; otherwise the cursor advances by one and nothing is recorded.
C10_TwoTier ==
    [][ (pc = "scan" /\ scan.status = "scanning" /\ NextParen # NotFound
         /\ ~range_syntax(input, NextParen).ok)
        => IF RangeLike(NextParen)
           THEN /\ scan'.status = "Err"
                /\ \E q \in NextParen..(Len(input) - 1) :
                      /\ FirstClose(NextParen, q)
                      /\ scan'.msg = Slice(input, NextParen, q + 1)
           ELSE /\ scan'.status = "scanning"
                /\ scan'.search_start = NextParen + 1
                /\ scan'.ranges = scan.ranges ]_vars

\* the scan failed hard at a '(' that follows a matched range and that
\* holds an em dash
C10_Witness ==
    /\ scan.status = "Err" /\ scan.ranges # <<>>
    /\ \E j \in 1..Len(scan.msg) : scan.msg[j] = "E2"

Defective(i) == scan.ranges[i].error.kind # "None"
SomeDefective == \E i \in 1..Len(scan.ranges) : Defective(i)

\* calc is the error of the leftmost scanned range that carries a defect
NamesLeftmostDefective ==
    \E i \in 1..Len(scan.ranges) :
        /\ Defective(i)
        /\ \A j \in 1..(i - 1) : ~Defective(j)
        /\ calc.kind = "Err"
        /\ calc.error.kind = scan.ranges[i].error.kind
        /\ calc.error.text = scan.ranges[i].text
        /\ calc.error.value = scan.ranges[i].error.value

\* calc is the error naming the range-like text at which the scan failed
NamesMalformed ==
    /\ calc.kind = "Err"
    /\ calc.error.kind = "Malformed"
    /\ \E q \in NextParen..(Len(input) - 1) :
          /\ FirstClose(NextParen, q)
          /\ calc.error.text = Slice(input, NextParen, q + 1)

\* C7 as claimed: whenever the text holds a malformed range or a range
\* with a validation defect, calculate_durations returns the error of the
\* leftmost of them.
C7_LeftmostDefectNamed ==
    (pc = "calculated" /\ (scan.status = "Err" \/ SomeDefective)) =>
        IF SomeDefective THEN NamesLeftmostDefective ELSE NamesMalformed

\* C7 amended: a hard failure of the scan comes first, whatever lies to its
\* left; when the scan completes, the leftmost defective range is named; a
\* ParseOutput is returned only when the scan completes without a defect.
C7_ScanFailureFirst ==
    pc = "calculated" =>
        /\ scan.status = "Err" => NamesMalformed
        /\ (scan.status = "Ok" /\ SomeDefective) => NamesLeftmostDefective
        /\ calc.kind = "Ok" => (scan.status = "Ok" /\ ~SomeDefective)

\* the scan failed hard to the right of a range that carries a defect
C7_Witness ==
    pc = "calculated" /\ scan.status = "Err" /\ SomeDefective

\* C1: clean_script is total: every call returns a string.
C1_CleanIsTotal ==
    /\ pc = "cleaned" => cleaned.kind = "Ok"
    /\ pc = "recleaned" => recleaned.kind = "Ok"

AsciiWords == Texts({<<"a">>}, MaxPieces) \ {<<>>}

\* C2: a range between two words, one space on each side, is replaced by a
\* single space.
C2_OneSpaceRemains ==
    \A A, B \in AsciiWords : \A R \in {R1, R2} :
        (pc = "cleaned" /\ input = A \o <<" ">> \o R \o <<" ">> \o B)
            => (cleaned.kind = "Ok" /\ cleaned.out = A \o <<" ">> \o B)

RECURSIVE Count(_, _)
Count(s, c) ==
    IF s = <<>> THEN 0 ELSE (IF Head(s) = c THEN 1 ELSE 0) + Count(Tail(s), c)

Links == Cardinality({j \in 1..(Len(scan.ranges) - 1) : Linked(j)})

\* C3: every '+' that links two ranges is cut out with its chain, as are the
\* ranges: the output holds no more '+' than the input holds outside its
\* links, and no range of the scan.
C3_ChainsExcisedWhole ==
    (pc = "cleaned" /\ cleaned.kind = "Ok" /\ Scanned) =>
        Count(cleaned.out, "+") + Links <= Count(input, "+")

\* the input without its ranges and without the links between them
RECURSIVE Prose(_, _)
Prose(i, from) ==
    IF i > Len(scan.ranges) THEN Slice(input, from, Len(input))
    ELSE (IF i > 1 /\ Linked(i - 1) THEN <<>>
          ELSE Slice(input, from, scan.ranges[i].start_pos))
         \o Prose(i + 1, scan.ranges[i].end_pos)

RECURSIVE NonSpace(_)
NonSpace(s) ==
    IF s = <<>> THEN <<>>
    ELSE (IF Head(s) = " " THEN <<>> ELSE <<Head(s)>>) \o NonSpace(Tail(s))

RECURSIVE IsSubsequence(_, _)
IsSubsequence(a, b) ==
    IF a = <<>> THEN TRUE
    ELSE IF b = <<>> THEN FALSE
    ELSE IF Head(a) = Head(b) THEN IsSubsequence(Tail(a), Tail(b))
    ELSE IsSubsequence(a, Tail(b))

\* only spaces lie between offset q and range i
NextTo(q, i) ==
    \/ /\ q < scan.ranges[i].start_pos
       /\ \A r \in (q + 1)..(scan.ranges[i].start_pos - 1) : input[r + 1] = " "
    \/ /\ q >= scan.ranges[i].end_pos
       /\ \A r \in scan.ranges[i].end_pos..(q - 1) : input[r + 1] = " "

\* every '+' of the input links two ranges or is away from every range
PlusAwayFromRanges ==
    \A q \in 0..(Len(input) - 1) :
        input[q + 1] = "+" =>
            \/ \E j \in 1..(Len(scan.ranges) - 1) :
                  Linked(j) /\ scan.ranges[j].end_pos <= q
                            /\ q < scan.ranges[j + 1].start_pos
            \/ \A i \in 1..Len(scan.ranges) : ~NextTo(q, i)

\* C8: cleaning removes only the range groups, their links and at most one
\* space on each side of a group: when no other '+' stands next to a range,
\* every other byte of the input that is not a space is in the output, in
\* order, and at most two bytes per group are missing from the rest.
C8_ProseUntouched ==
    (pc = "cleaned" /\ cleaned.kind = "Ok" /\ Scanned /\ PlusAwayFromRanges) =>
        /\ IsSubsequence(NonSpace(Prose(1, 0)), cleaned.out)
        /\ Len(cleaned.out) + 2 * (Len(scan.ranges) - Links) >= Len(Prose(1, 0))

RECURSIVE ExactSum(_, _)
ExactSum(xs, k) == IF k = 0 THEN Zero ELSE ExactAdd(ExactSum(xs, k - 1), xs[k])

\* the timestamps of a range text, and their totals without any width
StampsOf(text) == range_syntax(text, 0)
StartTotal(text) == to_seconds(StampsOf(text).start)
EndTotal(text) == to_seconds(StampsOf(text).end)

\* C5: on success total.seconds is the exact sum of the Lines' seconds, and a
\* Line's seconds is the exact sum of end total minus start total over its
\* ranges: nothing wraps around.
C5_ExactSums ==
    (pc = "calculated" /\ calc.kind = "Ok") =>
        LET L == calc.lines IN
        /\ calc.total.seconds =
              ExactSum([k \in 1..Len(L) |-> L[k].result.seconds], Len(L))
        /\ \A k \in 1..Len(L) :
              LET texts == L[k].group_texts IN
              /\ \A m \in 1..Len(texts) :
                    ~U32Lt(EndTotal(texts[m]), StartTotal(texts[m]))
              /\ L[k].result.seconds =
                    ExactSum([m \in 1..Len(texts) |->
                                 U32Sub(EndTotal(texts[m]), StartTotal(texts[m]))],
                             Len(texts))

Above(x, n) == U32Lt(Small(n), x)

\* what the validator is to make of a strictly parsed range text
Verdict(text) ==
    LET a == StampsOf(text).start
        b == StampsOf(text).end
    IN  IF Above(a.minutes, MaxField)
        THEN [error |-> [kind |-> "InvalidMinutes", value |-> a.minutes], duration |-> Zero]
        ELSE IF Above(b.minutes, MaxField)
        THEN [error |-> [kind |-> "InvalidMinutes", value |-> b.minutes], duration |-> Zero]
        ELSE IF Above(a.seconds, MaxField)
        THEN [error |-> [kind |-> "InvalidSeconds", value |-> a.seconds], duration |-> Zero]
        ELSE IF Above(b.seconds, MaxField)
        THEN [error |-> [kind |-> "InvalidSeconds", value |-> b.seconds], duration |-> Zero]
        ELSE IF U32Lt(EndTotal(text), StartTotal(text))
        THEN [error |-> [kind |-> "EndBeforeStart", value |-> Zero], duration |-> Zero]
        ELSE [error |-> NoError,
              duration |-> U32Sub(EndTotal(text), StartTotal(text))]

\* C9: every strictly parsed range gets the first matching verdict of the
\* precedence list, with the duration end total minus start total; the
\* hours never make the validator reject a range or give up.
C9_ValidatorPrecedence ==
    /\ scan.status # "Panic"
    /\ \A i \in 1..Len(scan.ranges) :
          /\ scan.ranges[i].error = Verdict(scan.ranges[i].text).error
          /\ scan.ranges[i].duration = Verdict(scan.ranges[i].text).duration

====
